---- MODULE Spec2Model ----
(***************************************************************************)
(* Wasm backtrace capture (crates/runtime/src/traphandlers/backtrace.rs). *)
(*                                                                         *)
(* Addresses are counted in machine words.  A Wasm frame pointer fp names  *)
(* two linkage words: the saved frame pointer at fp and the return address *)
(* at fp + 1.  The stack grows down, so older frames have larger fp.       *)
(***************************************************************************)
EXTENDS Integers, Sequences, FiniteSets, TLC

\* ------------------------------------------------------------------ bounds

\* Largest number of call-region records in front of the sentinel record.
MaxChain == 2

\* Largest number of Wasm frames in one contiguous region.
MaxFrames == 2

\* The number of type definitions of a Resolve.
MaxTypes == 3

\* ------------------------------------------------------------- data model

None == <<>>
Some(x) == <<x>>

\* struct Frame { pc, fp }
Frame(p, f) == [pc |-> p, fp |-> f]

\* The saved registers of one CallThreadState / of VMRuntimeLimits.
Regs(p, f, s) == [pc |-> p, fp |-> f, sp |-> s]

ZeroRegs == Regs(0, 0, 0)

\* Highest address a stack of MaxChain + 1 regions of MaxFrames frames uses.
Top == 2 + (MaxChain + 1) * (2 * MaxFrames + 2)

Addr == 0..(Top + 1)

\* ------------------------------------------- architecture boundary layer

\* arch::NEXT_OLDER_FP_FROM_FP_OFFSET, asserted to be zero by the walker.
NEXT_OLDER_FP_FROM_FP_OFFSET == 0

\* arch::get_next_older_pc_from_fp: the return address sits one word above
\* the saved frame pointer.
GetNextOlderPcFromFp(m, f) == m[f + 1]

\* arch::reached_entry_sp: the candidate frame pointer is at or above the
\* stack pointer the trampoline recorded.
ReachedEntrySp(f, first_wasm_sp) == f >= first_wasm_sp

\* arch::assert_entry_sp_is_aligned / arch::assert_fp_is_aligned: stack
\* alignment is two words; the checks are debug-only.
EntrySpIsAligned(s) == s % 2 = 0

FpIsAligned(f) == f % 2 = 0

\* ------------------------------------------------ synthetic stack layouts

\* A layout is a sequence rs of frame counts: rs[1] frames in the innermost
\* region (0: no Wasm on top of the stack) and, for each call-region record
\* in front of the sentinel, the frames of the region it saved (0: vacuous).
Layouts == UNION {[1..n -> 0..MaxFrames] : n \in 1..(MaxChain + 1)}

\* Words a region of n frames occupies: its frames and the trampoline frame
\* above them.
Extent(n) == IF n = 0 THEN 0 ELSE 2 * n + 2

RECURSIVE Base(_, _)
\* Frame pointer of the innermost frame of region i.
Base(rs, i) == IF i = 1 THEN 2 ELSE Base(rs, i - 1) + Extent(rs[i - 1])

\* The stack pointer the entry trampoline of region i recorded: two words
\* above the frame pointer of the region's oldest frame.
EntrySp(rs, i) == Base(rs, i) + 2 * rs[i]

\* The program counter that belongs to the frame at f.
PcOf(f) == 100 + f

\* The frame pointers of region i, innermost first.
RegionFps(rs, i) == [j \in 1..rs[i] |-> Base(rs, i) + 2 * (j - 1)]

RegionFrames(rs, i) == [j \in 1..rs[i] |-> Frame(PcOf(RegionFps(rs, i)[j]), RegionFps(rs, i)[j])]

AllFps(rs) == {RegionFps(rs, i)[j] : <<i, j>> \in {x \in (1..Len(rs)) \X (1..MaxFrames) : x[2] <= rs[x[1]]}}

\* Stack memory of the layout: each frame's saved fp is the next older
\* frame of its region, or the trampoline's frame pointer (which coincides
\* with the recorded entry sp) for the oldest; each return address is the
\* pc of the next older frame.  Every other word is zero.
MemOf(rs) ==
    [a \in Addr |->
        IF a \in AllFps(rs) THEN a + 2
        ELSE IF (a - 1) \in AllFps(rs) THEN PcOf(a + 1)
        ELSE 0]

\* The saved registers that describe region i (zero when it has no frames).
RegsOf(rs, i) ==
    IF rs[i] = 0 THEN ZeroRegs
    ELSE Regs(PcOf(Base(rs, i)), Base(rs, i), EntrySp(rs, i))

\* The CallThreadState list, most recent first: record k saved the registers
\* of region k + 1, and the last record (prev is null) is the sentinel.
ChainOf(rs) == [k \in 1..Len(rs) |-> IF k < Len(rs) THEN RegsOf(rs, k + 1) ELSE ZeroRegs]

RECURSIVE FramesFrom(_, _)
\* The real frames of regions i.. of the layout, most recent region first.
FramesFrom(rs, i) ==
    IF i > Len(rs) THEN <<>> ELSE RegionFrames(rs, i) \o FramesFrom(rs, i + 1)

\* The pc a trap handler reports: inside the innermost frame, but not the
\* pc an exit trampoline would have saved for it.
TrapPc == PcOf(0) - 1

\* ------------------------------------------------------------------ state

VARIABLES
    debug_assertions,  \* whether the build checks debug_assert!
    tls_state,         \* whether tls::with finds a CallThreadState
    limits,            \* VMRuntimeLimits: last_wasm_exit_pc/fp, last_wasm_entry_sp
    chain,             \* the CallThreadState list, most recent first
    memory,            \* the stack words
    trap_ctx,          \* the (pc, fp) a trap handler passes on, or None
    stack,             \* the layout the stack was built from, and whether it is intact
    at,                \* control point of the capture in progress
    shape,             \* "collect" (Backtrace::new*) or "stream" (Backtrace::trace*)
    trap_pc_and_fp,    \* the override argument of the call in progress
    pc, fp, trampoline_sp,  \* the walker's locals
    cursor,            \* how many records state.iter() has yielded
    frames,            \* the Vec the collecting closure pushes to
    delivered,         \* the frames passed to f so far, in call order
    stopped,           \* whether f returned ControlFlow::Break
    reads,             \* the addresses the walker has read linkage words at
    outcome,           \* "none", or "returned" once the call has returned
    backtrace,         \* the Backtrace the last collecting call returned
    streamed,          \* what the last streaming call that never stopped delivered
    iterated,          \* the sequences the frames() iterations have produced
    resolve,           \* wit_parser::Resolve: the type definitions, by TypeId
    world,             \* the world under analysis: its imports and its exports
    next_item,         \* position of Types::analyze in imports chained with exports
    type_info          \* Types::type_info: the TypeInfo stored for a TypeId, if any

types == <<resolve, world, next_item, type_info>>

env == <<debug_assertions, tls_state, limits, chain, memory, trap_ctx, stack, types>>

walk == <<pc, fp, trampoline_sp, cursor>>

seen == <<frames, delivered, stopped, reads>>

result == <<outcome, backtrace, streamed, iterated>>

vars == <<env, at, shape, trap_pc_and_fp, walk, seen, result>>

\* ------------------------------------------------------------------- Init

Start(dbg, tls, lim, ch, mem, trap, rs, wf) ==
    /\ debug_assertions = dbg
    /\ tls_state = tls
    /\ limits = lim
    /\ chain = ch
    /\ memory = mem
    /\ trap_ctx = trap
    /\ stack = [regions |-> rs, intact |-> wf]
    /\ at = "idle"
    /\ shape = "collect"
    /\ trap_pc_and_fp = None
    /\ pc = 0 /\ fp = 0 /\ trampoline_sp = 0 /\ cursor = 0
    /\ frames = <<>> /\ delivered = <<>> /\ stopped = FALSE /\ reads = {}
    /\ outcome = "none" /\ backtrace = None /\ streamed = None /\ iterated = <<>>

\* One field of the live record changed, or its exit pc and fp both zeroed.
BrokenLimits(lim) ==
    ({[lim EXCEPT !.pc = v] : v \in {0, TrapPc}}
        \cup {[lim EXCEPT !.fp = v] : v \in {0, 2, 3, Top}}
        \cup {[lim EXCEPT !.sp = v] : v \in {0, 3}}
        \cup {[lim EXCEPT !.pc = 0, !.fp = 0]}) \ {lim}

\* One field of one call-region record flipped between zero and non-zero.
BrokenChains(ch) ==
    {[ch EXCEPT ![k].pc = IF @ = 0 THEN TrapPc ELSE 0] : k \in 1..Len(ch)}
        \cup {[ch EXCEPT ![k].fp = IF @ = 0 THEN 2 ELSE 0] : k \in 1..Len(ch)}
        \cup {[ch EXCEPT ![k].sp = IF @ = 0 THEN Top ELSE 0] : k \in 1..Len(ch)}

\* One saved-fp word overwritten: a self-loop, a pointer back to the lowest
\* frame, or a misaligned pointer.
BrokenMemories(rs) ==
    {[MemOf(rs) EXCEPT ![a] = v] : <<a, v>> \in {x \in AllFps(rs) \X Addr : x[2] \in {x[1], 2, x[1] + 1}}}

\* The overrides a trap handler may pass: the trapping frame, or a pair that
\* is no frame of the stack.
GoodTrap == Frame(TrapPc, 2)

BadTraps == {Frame(0, 0), Frame(TrapPc, 0), Frame(0, 2), Frame(TrapPc, Top), Frame(TrapPc, 3)}

\* No world is under analysis: Types::default() and nothing to visit.
NoWorld ==
    /\ resolve = <<>>
    /\ world = [imports |-> <<>>, exports |-> <<>>]
    /\ next_item = 1
    /\ type_info = [id \in 1..MaxTypes |-> None]

Init ==
    /\ NoWorld
    /\ \E dbg \in BOOLEAN :
           \/ Start(dbg, FALSE, ZeroRegs, <<ZeroRegs>>, MemOf(<<0>>), None, <<0>>, TRUE)
           \/ \E rs \in Layouts :
               \/ Start(dbg, TRUE, RegsOf(rs, 1), ChainOf(rs), MemOf(rs), None, rs, TRUE)
               \/ /\ rs[1] > 0
                  /\ \E lim \in {RegsOf(rs, 1), [RegsOf(rs, 1) EXCEPT !.pc = 0, !.fp = 0]} :
                       Start(dbg, TRUE, lim, ChainOf(rs), MemOf(rs), Some(GoodTrap), rs, TRUE)
               \/ \E t \in BadTraps :
                       Start(dbg, TRUE, RegsOf(rs, 1), ChainOf(rs), MemOf(rs), Some(t), rs, FALSE)
               \/ \E lim \in BrokenLimits(RegsOf(rs, 1)) :
                       Start(dbg, TRUE, lim, ChainOf(rs), MemOf(rs), None, rs, FALSE)
               \/ \E ch \in BrokenChains(ChainOf(rs)) :
                       Start(dbg, TRUE, RegsOf(rs, 1), ch, MemOf(rs), None, rs, FALSE)
               \/ \E mem \in BrokenMemories(rs) :
                       Start(dbg, TRUE, RegsOf(rs, 1), ChainOf(rs), mem, None, rs, FALSE)

\* ----------------------------------------------------- the code's pieces

\* Mutant: the closure inserts each frame at the front of the Vec.
CollectPush_Front(vec, frame) == <<frame>> \o vec

\* The closure of new_with_trap_state: frames.push(frame).
CollectPush(vec, frame) == Append(vec, frame)

\* What f answers for a frame: the collecting closure always continues, a
\* caller's visitor answers as it likes.
VisitorAnswers(sh) == IF sh = "collect" THEN {"Continue"} ELSE {"Continue", "Break"}

\* Mutant: a stop only ends the walk of the current region.
AfterVisitor_BreakEndsRegion(answer) == IF answer = "Break" THEN "iter" ELSE "read"

\* `f(Frame { pc, fp })?` in the walker and the `if let Break` of its two
\* callers: where control goes after f has answered.
AfterVisitor(answer) == IF answer = "Break" THEN "return" ELSE "read"

\* Mutant: the live record's pc == 0 is not tested before the walk.
ResolveInnermost_NoEarlyReturn(trap, lim) ==
    IF trap # None
    THEN [to |-> "enter", pc |-> trap[1].pc, fp |-> trap[1].fp]
    ELSE [to |-> "enter", pc |-> lim.pc, fp |-> lim.fp]

\* Mutant: the override is dropped and the live record is always read.
ResolveInnermost_IgnoresTrap(trap, lim) ==
    IF lim.pc = 0
    THEN [to |-> IF lim.fp = 0 THEN "return" ELSE "abort", pc |-> 0, fp |-> 0]
    ELSE [to |-> "enter", pc |-> lim.pc, fp |-> lim.fp]

\* Mutant: pc == 0 is tested on the resolved pair, override included.
ResolveInnermost_ChecksResolvedPair(trap, lim) ==
    LET p == IF trap # None THEN trap[1].pc ELSE lim.pc
        f == IF trap # None THEN trap[1].fp ELSE lim.fp
    IN  IF p = 0
        THEN [to |-> IF f = 0 THEN "return" ELSE "abort", pc |-> 0, fp |-> 0]
        ELSE [to |-> "enter", pc |-> p, fp |-> f]

\* Mutant: pc == 0 returns without assert_eq!(fp, 0).
ResolveInnermost_NoAssert(trap, lim) ==
    IF trap # None
    THEN [to |-> "enter", pc |-> trap[1].pc, fp |-> trap[1].fp]
    ELSE IF lim.pc = 0
         THEN [to |-> "return", pc |-> 0, fp |-> 0]
         ELSE [to |-> "enter", pc |-> lim.pc, fp |-> lim.fp]

\* The match on trap_pc_and_fp: the pair to start from, or the early return
\* when the live record says no Wasm is on the stack, or the failed
\* assert_eq!(fp, 0).
ResolveInnermost(trap, lim) ==
    IF trap # None
    THEN [to |-> "enter", pc |-> trap[1].pc, fp |-> trap[1].fp]
    ELSE IF lim.pc = 0
         THEN [to |-> IF lim.fp = 0 THEN "return" ELSE "abort", pc |-> 0, fp |-> 0]
         ELSE [to |-> "enter", pc |-> lim.pc, fp |-> lim.fp]

\* The bound of the innermost region: *(*state.limits).last_wasm_entry_sp.
InnermostEntrySp(lim) == lim.sp

\* Mutant: assert_ne!(fp, 0) is missing.
EntryChecks_NoFpCheck(p, f, s, dbg) ==
    /\ p # 0
    /\ s # 0
    /\ dbg => EntrySpIsAligned(s)

\* The assertions at the head of trace_through_wasm.
EntryChecks(p, f, s, dbg) ==
    /\ p # 0
    /\ f # 0
    /\ s # 0
    /\ dbg => EntrySpIsAligned(s)

\* Mutant: the loop only checks alignment, not trampoline_sp >= fp.
LoopChecks_NoBound(f, s, dbg) == dbg => FpIsAligned(f)

\* The assertions at the head of each iteration of the walker's loop.
LoopChecks(f, s, dbg) ==
    /\ s >= f
    /\ dbg => FpIsAligned(f)

\* Mutant: the saved fp is read from the return-address word.
NextOlderFp_ReadsReturnAddress(m, f) == m[f + 1]

\* let next_older_fp = *(fp as *mut usize).add(NEXT_OLDER_FP_FROM_FP_OFFSET)
NextOlderFp(m, f) == m[f + NEXT_OLDER_FP_FROM_FP_OFFSET]

\* Mutant: the boundary test is dropped; only growth is asserted.
AfterRead_WalksPastBoundary(next_older_fp, f, s) ==
    IF next_older_fp > f THEN "loop" ELSE "abort"

\* Mutant: assert!(next_older_fp > fp) is missing.
AfterRead_NoGrowthCheck(next_older_fp, f, s) ==
    IF ReachedEntrySp(next_older_fp, s) THEN "iter" ELSE "loop"

\* Mutant: the walker asserts next_older_fp >= fp only.
AfterRead_AllowsEqual(next_older_fp, f, s) ==
    IF ReachedEntrySp(next_older_fp, s) THEN "iter"
    ELSE IF next_older_fp >= f THEN "loop"
    ELSE "abort"

\* The tail of one iteration of the walker's loop, once pc and
\* next_older_fp have been read: the region is complete, or the walk moves
\* to the next older frame, or assert!(next_older_fp > fp) fails.
AfterRead(next_older_fp, f, s) ==
    IF ReachedEntrySp(next_older_fp, s) THEN "iter"
    ELSE IF next_older_fp > f THEN "loop"
    ELSE "abort"

\* state.iter(): the records from the current one to the oldest; the one
\* yielded after n others, if any.
IterHasNext(ch, n) == n < Len(ch)

\* state.prev().is_null()
PrevIsNull(ch, k) == k = Len(ch)

\* Mutant: the vacuity test is inverted, so real regions are skipped.
OnRecord_SkipsRegions(rec, is_last, dbg) ==
    IF is_last
    THEN IF dbg /\ (rec.pc # 0 \/ rec.fp # 0 \/ rec.sp # 0) THEN "abort" ELSE "return"
    ELSE IF rec.sp # 0 THEN "iter" ELSE "enter"

\* Mutant: a vacuous record ends the capture instead of being skipped.
OnRecord_VacuousEnds(rec, is_last, dbg) ==
    IF is_last
    THEN IF dbg /\ (rec.pc # 0 \/ rec.fp # 0 \/ rec.sp # 0) THEN "abort" ELSE "return"
    ELSE IF rec.sp = 0
         THEN IF dbg /\ (rec.fp # 0 \/ rec.pc # 0) THEN "abort" ELSE "return"
         ELSE "enter"

\* Mutant: the oldest record is not recognised and is handled like the rest.
OnRecord_NoSentinelTest(rec, is_last, dbg) ==
    IF rec.sp = 0
    THEN IF dbg /\ (rec.fp # 0 \/ rec.pc # 0) THEN "abort" ELSE "iter"
    ELSE "enter"

\* The body of `for state in state.iter()` for one record: the sentinel ends
\* the capture, a vacuous record is skipped, any other record is a region to
\* walk; the debug assertions fail on a malformed record.
OnRecord(rec, is_last, dbg) ==
    IF is_last
    THEN IF dbg /\ (rec.pc # 0 \/ rec.fp # 0 \/ rec.sp # 0) THEN "abort" ELSE "return"
    ELSE IF rec.sp = 0
         THEN IF dbg /\ (rec.fp # 0 \/ rec.pc # 0) THEN "abort" ELSE "iter"
         ELSE "enter"

\* Mutant: the stored frames are yielded from the last one on.
BacktraceFrames_Reversed(bt) == [i \in 1..Len(bt) |-> bt[Len(bt) + 1 - i]]

\* Backtrace::frames: self.0.iter(), the stored frames from the first on.
BacktraceFrames(bt) == [i \in 1..Len(bt) |-> bt[i]]

\* ---------------------------------------------------------------- actions

\* Every way a call returns to its caller: a collecting call hands back
\* Backtrace(frames); a streaming call that never stopped is remembered for
\* comparison with later calls on the same state.
Returns(vec, dlv, stop) ==
    /\ at' = "idle"
    /\ outcome' = "returned"
    /\ backtrace' = IF shape = "collect" THEN Some(vec) ELSE None
    /\ streamed' = IF shape = "stream" /\ ~stop THEN Some(dlv) ELSE streamed
    /\ UNCHANGED iterated

Call(sh, trap, to) ==
    /\ at = "idle"
    /\ at' = to
    /\ shape' = sh
    /\ trap_pc_and_fp' = trap
    /\ pc' = 0 /\ fp' = 0 /\ trampoline_sp' = 0 /\ cursor' = 0
    /\ frames' = <<>> /\ delivered' = <<>> /\ stopped' = FALSE /\ reads' = {}
    /\ outcome' = "none" /\ backtrace' = None /\ iterated' = <<>>
    /\ UNCHANGED <<env, streamed>>

\* Backtrace::new, outside a trap handler.
New == trap_ctx = None /\ Call("collect", None, "tls_with")

\* Backtrace::trace, outside a trap handler.
Trace == trap_ctx = None /\ Call("stream", None, "tls_with")

\* Backtrace::new_with_trap_state, called by the trap handler.
NewWithTrapState == tls_state /\ trap_ctx # None /\ Call("collect", trap_ctx, "resolve")

\* Backtrace::trace_with_trap_state, called by the trap handler.
TraceWithTrapState == tls_state /\ trap_ctx # None /\ Call("stream", trap_ctx, "resolve")

\* tls::with(|state| match state { Some(state) => ..., None => ... })
TlsWith ==
    /\ at = "tls_with"
    /\ IF tls_state
       THEN at' = "resolve" /\ UNCHANGED result
       ELSE Returns(<<>>, <<>>, FALSE)
    /\ UNCHANGED <<env, shape, trap_pc_and_fp, walk, seen>>

\* Mutant: resolving the innermost region takes the exit pc and fp out of
\* the boundary record, leaving zeros behind.
Resolve_TakesExitRegs ==
    /\ at = "resolve"
    /\ LET r == ResolveInnermost(trap_pc_and_fp, limits) IN
        IF r.to = "return"
        THEN Returns(frames, delivered, FALSE) /\ UNCHANGED walk
        ELSE /\ at' = r.to
             /\ pc' = r.pc
             /\ fp' = r.fp
             /\ trampoline_sp' = IF r.to = "enter" THEN InnermostEntrySp(limits) ELSE 0
             /\ UNCHANGED <<cursor, result>>
    /\ limits' = [limits EXCEPT !.pc = 0, !.fp = 0]
    /\ UNCHANGED <<debug_assertions, tls_state, chain, memory, trap_ctx, stack, types>>
    /\ UNCHANGED <<shape, trap_pc_and_fp, seen>>

\* trace_with_trap_state up to its first call of trace_through_wasm.
Resolve ==
    /\ at = "resolve"
    /\ LET r == ResolveInnermost(trap_pc_and_fp, limits) IN
        IF r.to = "return"
        THEN Returns(frames, delivered, FALSE) /\ UNCHANGED walk
        ELSE /\ at' = r.to
             /\ pc' = r.pc
             /\ fp' = r.fp
             /\ trampoline_sp' = IF r.to = "enter" THEN InnermostEntrySp(limits) ELSE 0
             /\ UNCHANGED <<cursor, result>>
    /\ UNCHANGED <<env, shape, trap_pc_and_fp, seen>>

\* trace_through_wasm from its entry to its loop.
TraceThroughWasm ==
    /\ at = "enter"
    /\ at' = IF EntryChecks(pc, fp, trampoline_sp, debug_assertions) THEN "loop" ELSE "abort"
    /\ UNCHANGED <<env, shape, trap_pc_and_fp, walk, seen, result>>

\* The head of one iteration of the walker's loop.
LoopHead ==
    /\ at = "loop"
    /\ at' = IF LoopChecks(fp, trampoline_sp, debug_assertions) THEN "visit" ELSE "abort"
    /\ UNCHANGED <<env, shape, trap_pc_and_fp, walk, seen, result>>

\* f(Frame { pc, fp })?
Visit ==
    /\ at = "visit"
    /\ \E answer \in VisitorAnswers(shape) :
        /\ delivered' = Append(delivered, Frame(pc, fp))
        /\ frames' = IF shape = "collect" THEN CollectPush(frames, Frame(pc, fp)) ELSE frames
        /\ stopped' = (answer = "Break")
        /\ IF AfterVisitor(answer) = "return"
           THEN Returns(frames', delivered', stopped')
           ELSE at' = AfterVisitor(answer) /\ UNCHANGED result
    /\ UNCHANGED <<env, shape, trap_pc_and_fp, walk, reads>>

\* The rest of the iteration: read the return address and the saved fp at
\* fp, then finish the region, step to the older frame, or abort.
ReadLinkage ==
    /\ at = "read"
    /\ reads' = reads \cup {fp}
    /\ pc' = GetNextOlderPcFromFp(memory, fp)
    /\ at' = AfterRead(NextOlderFp(memory, fp), fp, trampoline_sp)
    /\ fp' = IF at' = "loop" THEN NextOlderFp(memory, fp) ELSE fp
    /\ UNCHANGED <<env, shape, trap_pc_and_fp, trampoline_sp, cursor, frames, delivered, stopped, result>>

\* One turn of `for state in state.iter()`, and the unreachable!() behind
\* the loop.
IterNext ==
    /\ at = "iter"
    /\ IF ~IterHasNext(chain, cursor)
       THEN at' = "abort" /\ UNCHANGED <<walk, result>>
       ELSE LET rec == chain[cursor + 1]
                to == OnRecord(rec, PrevIsNull(chain, cursor + 1), debug_assertions)
            IN  /\ cursor' = cursor + 1
                /\ IF to = "return"
                   THEN Returns(frames, delivered, stopped) /\ UNCHANGED <<pc, fp, trampoline_sp>>
                   ELSE /\ at' = to
                        /\ pc' = IF to = "enter" THEN rec.pc ELSE pc
                        /\ fp' = IF to = "enter" THEN rec.fp ELSE fp
                        /\ trampoline_sp' = IF to = "enter" THEN rec.sp ELSE trampoline_sp
                        /\ UNCHANGED result
    /\ UNCHANGED <<env, shape, trap_pc_and_fp, seen>>

\* Backtrace::empty()
Empty ==
    /\ at = "idle"
    /\ backtrace = None
    /\ backtrace' = Some(<<>>)
    /\ iterated' = <<>>
    /\ UNCHANGED <<env, at, shape, trap_pc_and_fp, walk, seen, outcome, streamed>>

\* One full iteration over backtrace.frames().
IterateFrames ==
    /\ at = "idle"
    /\ backtrace # None
    /\ Len(iterated) < 2
    /\ iterated' = Append(iterated, BacktraceFrames(backtrace[1]))
    /\ UNCHANGED <<env, at, shape, trap_pc_and_fp, walk, seen, outcome, backtrace, streamed>>

Next ==
    \/ New
    \/ Trace
    \/ NewWithTrapState
    \/ TraceWithTrapState
    \/ TlsWith
    \/ Resolve
    \/ TraceThroughWasm
    \/ LoopHead
    \/ Visit
    \/ ReadLinkage
    \/ IterNext
    \/ Empty
    \/ IterateFrames

Spec == Init /\ [][Next]_vars

\* ------------------------------------------------ wit-bindgen: Types

TypeIds == 1..MaxTypes

\* wit_parser::Type: a primitive, or a reference to a type definition.
StringType == [tag |-> "string", id |-> 0]

Id(n) == [tag |-> "id", id |-> n]

\* wit_parser::TypeDefKind, as far as the analysis tells kinds apart.
TypeDef(kind, tys, ok, err) == [kind |-> kind, tys |-> tys, ok |-> ok, err |-> err]

Enum == TypeDef("enum", <<>>, None, None)

Record(tys) == TypeDef("record", tys, None, None)

List(ty) == TypeDef("list", <<ty>>, None, None)

Option(ty) == TypeDef("option", <<ty>>, None, None)

Result_(ok, err) == TypeDef("result", <<>>, ok, err)

\* wit_parser::Function: the types of its parameters and of its results.
Function(params, results) == [params |-> params, results |-> results]

\* wit_parser::WorldItem
WorldFunction(f) == [kind |-> "function", id |-> 0, types |-> <<>>, functions |-> <<f>>]

WorldInterface(ts, fs) == [kind |-> "interface", id |-> 0, types |-> ts, functions |-> fs]

WorldType(id) == [kind |-> "type", id |-> id, types |-> <<>>, functions |-> <<>>]

\* TypeInfo::default()
TypeInfoDefault == [borrowed |-> FALSE, owned |-> FALSE, error |-> FALSE, has_list |-> FALSE]

\* impl BitOrAssign for TypeInfo
BitOrAssign(a, b) ==
    [borrowed |-> a.borrowed \/ b.borrowed,
     owned |-> a.owned \/ b.owned,
     error |-> a.error \/ b.error,
     has_list |-> a.has_list \/ b.has_list]

RECURSIVE TypeIdInfo(_, _, _)
\* Types::type_info: the info of a type and the map after the call.
TypeInfoOf(res, map, ty) ==
    CASE ty.tag = "string" -> [info |-> [TypeInfoDefault EXCEPT !.has_list = TRUE], map |-> map]
      [] ty.tag = "id" -> TypeIdInfo(res, map, ty.id)
      [] OTHER -> [info |-> TypeInfoDefault, map |-> map]

\* Types::optional_type_info
OptionalTypeInfo(res, map, ty) ==
    IF ty = None THEN [info |-> TypeInfoDefault, map |-> map] ELSE TypeInfoOf(res, map, ty[1])

RECURSIVE OrEach(_, _, _, _)
\* `info |= self.type_info(resolve, ty)` for each type of a sequence in turn.
OrEach(res, map, tys, info) ==
    IF tys = <<>> THEN [info |-> info, map |-> map]
    ELSE LET r == TypeInfoOf(res, map, Head(tys))
         IN  OrEach(res, r.map, Tail(tys), BitOrAssign(info, r.info))

\* Types::type_id_info: the stored info if there is one; otherwise the info
\* computed from the infos of the definition's parts as they are now, which
\* is then stored.
TypeIdInfo(res, map, ty) ==
    IF map[ty] # None THEN [info |-> map[ty][1], map |-> map]
    ELSE LET def == res[ty]
             r == CASE def.kind = "record" -> OrEach(res, map, def.tys, TypeInfoDefault)
                    [] def.kind = "list" ->
                        LET c == TypeInfoOf(res, map, def.tys[1])
                        IN  [info |-> [c.info EXCEPT !.has_list = TRUE], map |-> c.map]
                    [] def.kind = "option" -> TypeInfoOf(res, map, def.tys[1])
                    [] def.kind = "result" ->
                        LET o == OptionalTypeInfo(res, map, def.ok)
                            e == OptionalTypeInfo(res, o.map, def.err)
                        IN  [info |-> BitOrAssign(o.info, e.info), map |-> e.map]
                    [] OTHER -> [info |-> TypeInfoDefault, map |-> map]
         IN  [info |-> r.info, map |-> [r.map EXCEPT ![ty] = Some(r.info)]]

\* The types a definition is made of.
ChildTypes(def) ==
    {def.tys[k] : k \in 1..Len(def.tys)}
        \cup {def.ok[k] : k \in 1..Len(def.ok)}
        \cup {def.err[k] : k \in 1..Len(def.err)}

RECURSIVE LiveTypeId(_, _)
\* LiveTypes::add_type: the type definitions a type reaches.
LiveType(res, ty) == IF ty.tag = "id" THEN LiveTypeId(res, ty.id) ELSE {}

LiveTypeId(res, id) == {id} \cup UNION {LiveType(res, c) : c \in ChildTypes(res[id])}

\* The LiveTypes after add_type for each type of a sequence.
LiveTypes(res, tys) == UNION {LiveType(res, tys[k]) : k \in 1..Len(tys)}

\* The type definitions the error loop of type_info_func marks: the err type
\* of a result type that is itself a function result, if it is a type id.
DirectErrIds(res, func) ==
    {res[ty.id].err[1].id : ty \in {t \in {func.results[k] : k \in 1..Len(func.results)} :
        /\ t.tag = "id"
        /\ res[t.id].kind = "result"
        /\ res[t.id].err # None
        /\ res[t.id].err[1].tag = "id"}}

\* Types::type_info_func: the map after the call.
TypeInfoFunc(res, map, func, import) ==
    LET m1 == OrEach(res, map, func.params, TypeInfoDefault).map
        live1 == LiveTypes(res, func.params)
        m2 == [id \in TypeIds |->
                IF id \notin live1 THEN m1[id]
                ELSE IF import THEN Some([m1[id][1] EXCEPT !.owned = TRUE])
                ELSE Some([m1[id][1] EXCEPT !.borrowed = TRUE])]
        m3 == OrEach(res, m2, func.results, TypeInfoDefault).map
        live2 == LiveTypes(res, func.results)
        m4 == [id \in TypeIds |->
                IF id \notin live2 THEN m3[id] ELSE Some([m3[id][1] EXCEPT !.owned = TRUE])]
    IN  [id \in TypeIds |->
            IF id \notin DirectErrIds(res, func) THEN m4[id]
            ELSE Some([m4[id][1] EXCEPT !.error = TRUE])]

RECURSIVE TypeIdInfoEach(_, _, _)
\* `self.type_id_info(resolve, *t)` for each type of an interface in turn.
TypeIdInfoEach(res, map, ids) ==
    IF ids = <<>> THEN map
    ELSE TypeIdInfoEach(res, TypeIdInfo(res, map, Head(ids)).map, Tail(ids))

RECURSIVE TypeInfoFuncEach(_, _, _, _)
\* `self.type_info_func(resolve, f, import)` for each function of an
\* interface in turn.
TypeInfoFuncEach(res, map, fs, import) ==
    IF fs = <<>> THEN map
    ELSE TypeInfoFuncEach(res, TypeInfoFunc(res, map, Head(fs), import), Tail(fs), import)

\* world.imports.iter().map(|i| (true, i)).chain(world.exports.iter().map(|i| (false, i)))
NumItems == Len(world.imports) + Len(world.exports)

ItemIsImport == next_item <= Len(world.imports)

Item == IF ItemIsImport THEN world.imports[next_item] ELSE world.exports[next_item - Len(world.imports)]

\* The backtrace machinery takes no part in the analysis.
Elsewhere ==
    <<debug_assertions, tls_state, limits, chain, memory, trap_ctx, stack,
      at, shape, trap_pc_and_fp, walk, seen, result>>

\* One turn of the loop of analyze on WorldItem::Function.
AnalyzeFunction ==
    /\ next_item <= NumItems
    /\ Item.kind = "function"
    /\ type_info' = TypeInfoFunc(resolve, type_info, Item.functions[1], ItemIsImport)
    /\ next_item' = next_item + 1
    /\ UNCHANGED <<resolve, world, Elsewhere>>

\* One turn of the loop of analyze on WorldItem::Interface.
AnalyzeInterface ==
    /\ next_item <= NumItems
    /\ Item.kind = "interface"
    /\ type_info' = TypeInfoFuncEach(resolve, TypeIdInfoEach(resolve, type_info, Item.types),
                                     Item.functions, ItemIsImport)
    /\ next_item' = next_item + 1
    /\ UNCHANGED <<resolve, world, Elsewhere>>

\* One turn of the loop of analyze on WorldItem::Type.
AnalyzeType ==
    /\ next_item <= NumItems
    /\ Item.kind = "type"
    /\ type_info' = TypeIdInfo(resolve, type_info, Item.id).map
    /\ next_item' = next_item + 1
    /\ UNCHANGED <<resolve, world, Elsewhere>>

\* The types a definition with id i may be made of: definitions refer to
\* earlier definitions only.
Earlier(i) == {Id(j) : j \in 1..(i - 1)}

TypeDefs(i) ==
    {Enum}
        \cup {List(t) : t \in IF i = 1 THEN {StringType} ELSE Earlier(i)}
        \cup {Record(<<t>>) : t \in Earlier(i)}
        \cup {Result_(None, Some(t)) : t \in Earlier(i)}
        \cup {Option(t) : t \in IF i = MaxTypes THEN Earlier(i) ELSE {}}

Resolves == {r \in [TypeIds -> UNION {TypeDefs(i) : i \in TypeIds}] : \A i \in TypeIds : r[i] \in TypeDefs(i)}

TypeLists == {<<>>} \cup {<<Id(i)>> : i \in TypeIds}

Functions == {Function(ps, rs) : <<ps, rs>> \in TypeLists \X TypeLists}

InterfaceFunctions == {f \in Functions : (f.params = <<>>) # (f.results = <<>>)}

WorldItems ==
    {WorldFunction(f) : f \in Functions \ {Function(<<>>, <<>>)}}
        \cup {WorldType(i) : i \in TypeIds}
        \cup {WorldInterface(<<i>>, <<f>>) : <<i, f>> \in TypeIds \X InterfaceFunctions}

ItemLists == {<<>>} \cup {<<it>> : it \in WorldItems}

\* Types::default() before analyze on some world of some Resolve.
InitTypes ==
    /\ Start(FALSE, FALSE, ZeroRegs, <<ZeroRegs>>, MemOf(<<0>>), None, <<0>>, TRUE)
    /\ resolve \in Resolves
    /\ world \in {[imports |-> i, exports |-> e] : <<i, e>> \in ItemLists \X ItemLists}
    /\ next_item = 1
    /\ type_info = [id \in TypeIds |-> None]

NextTypes ==
    \/ AnalyzeFunction
    \/ AnalyzeInterface
    \/ AnalyzeType

SpecTypes == InitTypes /\ [][NextTypes]_vars

\* analyze has returned.
Analyzed == next_item > NumItems

\* The functions of the world, each with whether it is imported.
WorldFunctions ==
    {[import |-> TRUE, func |-> world.imports[k].functions[n]] :
        <<k, n>> \in {x \in (1..Len(world.imports)) \X (1..1) : x[2] <= Len(world.imports[x[1]].functions)}}
    \cup
    {[import |-> FALSE, func |-> world.exports[k].functions[n]] :
        <<k, n>> \in {x \in (1..Len(world.exports)) \X (1..1) : x[2] <= Len(world.exports[x[1]].functions)}}

\* The type is used, directly or through type definitions, in a type of the
\* sequence.
UsedIn(id, tys) == id \in LiveTypes(resolve, tys)

UsedOwned(id) ==
    \E wf \in WorldFunctions :
        \/ UsedIn(id, wf.func.results)
        \/ wf.import /\ UsedIn(id, wf.func.params)

UsedBorrowed(id) ==
    \E wf \in WorldFunctions : ~wf.import /\ UsedIn(id, wf.func.params)

\* The type is used, directly or through type definitions, in the err type
\* of a result type that is a result of a function of the world.
UsedInError(id) ==
    \E wf \in WorldFunctions :
        \E k \in 1..Len(wf.func.results) :
            LET t == wf.func.results[k] IN
            /\ t.tag = "id"
            /\ resolve[t.id].kind = "result"
            /\ resolve[t.id].err # None
            /\ UsedIn(id, resolve[t.id].err)

\* The type definitions analyze has stored an info for.
Known == {id \in TypeIds : type_info[id] # None}

\* C11: after analyze, owned is set exactly on the types used in a function
\* result or in a parameter of an imported function, and borrowed exactly on
\* the types used in a parameter of an exported function.
C11_OwnedBorrowedExact ==
    Analyzed =>
        \A id \in Known :
            /\ type_info[id][1].owned = UsedOwned(id)
            /\ type_info[id][1].borrowed = UsedBorrowed(id)

\* C12: after analyze, error is set exactly on the types used within the
\* error case of the result of a function.
C12_ErrorExact ==
    Analyzed => \A id \in Known : type_info[id][1].error = UsedInError(id)

\* ------------------------------------------------------------- vocabulary

\* The capture in progress has returned to its caller.
Completed == at = "idle" /\ outcome = "returned"

IsPrefix(a, b) == Len(a) <= Len(b) /\ \A i \in 1..Len(a) : a[i] = b[i]

RECURSIVE TotalFrames(_, _)
\* The number of real frames of regions i.. of a layout.
TotalFrames(rs, i) == IF i > Len(rs) THEN 0 ELSE rs[i] + TotalFrames(rs, i + 1)

\* The stack is as the trampolines leave it and Wasm is on top of it.
WellFormed == tls_state /\ stack.intact /\ stack.regions[1] > 0

\* The frames of the stack in the order a backtrace lists them: the layout's
\* frames, the innermost one with the trap handler's pc when in a trap.
ExpectedTrace ==
    LET fs == FramesFrom(stack.regions, 1) IN
    IF trap_pc_and_fp = None \/ fs = <<>> THEN fs ELSE [fs EXCEPT ![1] = trap_pc_and_fp[1]]

\* The layout without its vacuous call-region records.
WithoutVacuous(rs) == <<rs[1]>> \o SelectSeq(SubSeq(rs, 2, Len(rs)), LAMBDA n : n > 0)

\* The pair the capture starts from.
ResolvedPair == IF trap_pc_and_fp # None THEN trap_pc_and_fp[1] ELSE Frame(limits.pc, limits.fp)

\* ------------------------------------------------------------------ claims

\* C1: on a well-formed stack a capture whose visitor always continues
\* delivers exactly the frames of the innermost region followed by those of
\* each non-vacuous record's region, most recent first, so its length is the
\* number of real frames; the collecting shape returns that sequence.
C1_TraceIsAllRegionsInOrder ==
    (Completed /\ WellFormed /\ ~stopped) =>
        /\ delivered = ExpectedTrace
        /\ Len(delivered) = TotalFrames(stack.regions, 1)
        /\ shape = "collect" => backtrace = Some(ExpectedTrace)

C1_Witness ==
    /\ Completed /\ WellFormed /\ ~stopped /\ shape = "collect"
    /\ limits.pc # 0 /\ limits.fp # 0 /\ trap_pc_and_fp = None
    /\ Len(stack.regions) = 3
    /\ stack.regions[1] = 2 /\ stack.regions[2] = 2 /\ stack.regions[3] = 1
    /\ backtrace = Some(ExpectedTrace)
    /\ Len(delivered) = 5

\* C2: for a single region F0..Fn the walker delivers exactly [F0, ..., Fn]:
\* the first frame is the given (pc, fp), each later frame's pc and fp are
\* the return-address word and the saved-fp word at the previous frame's fp,
\* and the walk ends at the first saved fp that reached_entry_sp accepts.
C2_SingleRegionWalk ==
    (Completed /\ WellFormed /\ ~stopped /\ Len(stack.regions) = 1) =>
        LET n == Len(delivered) IN
        /\ n = stack.regions[1]
        /\ delivered[1] = ResolvedPair
        /\ \A i \in 1..(n - 1) :
            /\ delivered[i + 1].pc = memory[delivered[i].fp + 1]
            /\ delivered[i + 1].fp = memory[delivered[i].fp]
            /\ ~ReachedEntrySp(memory[delivered[i].fp], limits.sp)
        /\ ReachedEntrySp(memory[delivered[n].fp], limits.sp)
        /\ \A i \in 1..n : delivered[i].fp = RegionFps(stack.regions, 1)[i]

C2_Witness ==
    /\ Completed /\ WellFormed /\ ~stopped /\ Len(stack.regions) = 1
    /\ stack.regions[1] = MaxFrames
    /\ Len(delivered) = MaxFrames
    /\ delivered[2] = Frame(PcOf(4), 4)

\* C3: once the visitor has answered stop the capture has returned and
\* nothing more is delivered: the frames it was given are a prefix of the
\* full trace that ends with the frame it stopped on.
C3_StopEndsWholeCapture ==
    stopped =>
        /\ Completed
        /\ shape = "stream"
        /\ delivered # <<>>
        /\ WellFormed => IsPrefix(delivered, ExpectedTrace)
        /\ streamed # None => IsPrefix(delivered, streamed[1])

C3_Witness ==
    /\ stopped /\ Completed /\ WellFormed
    /\ Len(stack.regions) = 3
    /\ stack.regions[1] = 1 /\ stack.regions[2] = 2 /\ stack.regions[3] = 1
    /\ Len(delivered) = 2
    /\ streamed # None /\ Len(streamed[1]) = 4

C3_WitnessFirstFrame ==
    /\ stopped /\ Completed /\ Len(delivered) = 1 /\ Len(ExpectedTrace) = 5

\* C4: without a call-thread state, or without an override when the live
\* record's exit pc and fp are both zero, a capture delivers no frame, never
\* aborts, and the collecting shape returns the zero-frame Backtrace,
\* whatever the call-region chain holds.
EmptyContext ==
    /\ trap_ctx = None
    /\ ~tls_state \/ (limits.pc = 0 /\ limits.fp = 0)

C4_EmptyContextYieldsNoFrames ==
    EmptyContext =>
        /\ delivered = <<>>
        /\ at \in {"idle", "tls_with", "resolve"}
        /\ (Completed /\ shape = "collect") => backtrace = Some(<<>>)

C4_Witness ==
    /\ EmptyContext /\ tls_state /\ Completed /\ shape = "collect"
    /\ \E k \in 1..Len(chain) : chain[k].sp # 0
    /\ backtrace = Some(<<>>)

C4_WitnessNoState ==
    ~tls_state /\ Completed /\ shape = "collect" /\ backtrace = Some(<<>>)

\* C5: vacuous records add no frame and do not end the traversal: on a
\* well-formed stack the full trace is that of the same stack without its
\* vacuous records, and the traversal went on to the sentinel.
C5_VacuousRecordsAreSkipped ==
    (Completed /\ WellFormed /\ ~stopped /\ trap_pc_and_fp = None) =>
        /\ delivered = FramesFrom(WithoutVacuous(stack.regions), 1)
        /\ cursor = Len(chain)

C5_Witness ==
    /\ Completed /\ WellFormed /\ ~stopped /\ trap_pc_and_fp = None
    /\ Len(stack.regions) = 3
    /\ stack.regions[2] = 0 /\ stack.regions[3] = 2
    /\ Len(delivered) = stack.regions[1] + 2
    /\ delivered[Len(delivered)].fp = chain[2].fp + 2

\* C6: the first frame delivered is the trap override when one is given and
\* the live record's exit pc and fp otherwise; in both cases the innermost
\* region is bounded by the live record's last_wasm_entry_sp.
C6_InnermostStart ==
    /\ delivered # <<>> => delivered[1] = ResolvedPair
    /\ (at \in {"enter", "loop", "visit", "read"} /\ cursor = 0) => trampoline_sp = limits.sp

C6_Witness ==
    /\ Completed /\ trap_pc_and_fp = Some(GoodTrap)
    /\ limits.pc # 0 /\ limits.pc # GoodTrap.pc
    /\ delivered # <<>> /\ delivered[1] = GoodTrap
    /\ Len(delivered) = TotalFrames(stack.regions, 1)
    /\ Len(delivered) >= 3

C7_WitnessOverride ==
    at = "abort" /\ trap_pc_and_fp = Some(Frame(0, 0)) /\ delivered = <<>>

\* C8: a live record with exit pc zero and exit fp non-zero, and no
\* override: the capture aborts before any frame and never returns a trace.
C8_ZeroPcNonZeroFpAborts ==
    (trap_ctx = None /\ tls_state /\ limits.pc = 0 /\ limits.fp # 0) =>
        /\ at \in {"idle", "tls_with", "resolve", "abort"}
        /\ outcome = "none"
        /\ delivered = <<>>
        /\ backtrace = None \/ (at = "idle" /\ backtrace = Some(<<>>))

C8_Witness ==
    /\ at = "abort" /\ trap_pc_and_fp = None /\ tls_state
    /\ limits.pc = 0 /\ limits.fp # 0 /\ delivered = <<>>

\* C9: on the same thread state and override the Backtrace of the collecting
\* shape holds exactly what the streaming shape delivered to a visitor that
\* never stopped, and a capture that one shape completed does not abort in
\* the other.
C9_ShapesAgree ==
    /\ (Completed /\ shape = "collect" /\ streamed # None) => backtrace = streamed
    /\ (Completed /\ shape = "stream" /\ ~stopped) => streamed = Some(delivered)
    /\ at = "abort" => streamed = None

C9_Witness ==
    /\ Completed /\ shape = "collect" /\ streamed # None
    /\ backtrace = streamed
    /\ Len(backtrace[1]) >= 4
    /\ trap_pc_and_fp # None

\* C10: every iteration over frames() yields the stored frames in the order
\* they were delivered during the capture and leaves the Backtrace as it
\* was; the Backtrace of empty() yields nothing.
C10_FramesRepeatable ==
    LET stored == IF Completed /\ shape = "collect" THEN delivered ELSE <<>> IN
    /\ \A i \in 1..Len(iterated) : iterated[i] = stored
    /\ backtrace # None => backtrace = Some(stored)

C10_Witness ==
    /\ Len(iterated) = 2 /\ iterated[1] = iterated[2]
    /\ Len(iterated[1]) >= 3
    /\ iterated[1][1].fp < iterated[1][2].fp
    /\ backtrace = Some(delivered)

C10_WitnessEmpty ==
    /\ Len(iterated) = 2 /\ iterated[2] = <<>> /\ outcome = "none" /\ backtrace = Some(<<>>)

\* The frame pointers of the frames in a sequence.
FpsOf(fs) == {fs[i].fp : i \in 1..Len(fs)}

\* The frame delivered last.
LastDelivered == delivered[Len(delivered)]

\* The fp the region being walked started from.
RegionStartFp == IF cursor = 0 THEN ResolvedPair.fp ELSE chain[cursor].fp

\* C13: a frame pointer is tested against the region bound before it is
\* delivered and before a linkage word is read through it, and one above
\* the bound aborts the capture with that frame neither delivered nor read,
\* whatever the override or the live record gave as fp.
C13_FpBoundedBeforeUse ==
    /\ at \in {"visit", "read"} => fp <= trampoline_sp
    /\ at = "read" => LastDelivered.fp <= trampoline_sp
    /\ (at = "abort" /\ fp > trampoline_sp /\ trampoline_sp # 0 /\ pc # 0) =>
        /\ fp \notin reads
        /\ fp \notin FpsOf(delivered)
        /\ cursor = 0 => (delivered = <<>> /\ reads = {})

C13_Witness ==
    /\ at = "abort" /\ trap_pc_and_fp # None
    /\ fp = trap_pc_and_fp[1].fp /\ fp > trampoline_sp
    /\ trampoline_sp # 0 /\ pc # 0
    /\ delivered = <<>> /\ reads = {}

\* C14 as stated: the addresses the walker has read linkage words at are
\* exactly the fps of the frames it has delivered, whenever it is between
\* regions or has returned.
C14_ReadsExactlyDelivered ==
    at \in {"idle", "iter"} => reads = FpsOf(delivered)

\* C14 amended: a saved fp that reached_entry_sp accepts is never delivered
\* and never read through; every read is at the fp of a delivered frame,
\* and every delivered frame is read through except the one the visitor
\* stopped on.
C14_NeverIntoTrampoline ==
    /\ (at \in {"loop", "visit", "read"} /\ fp # RegionStartFp) =>
        ~ReachedEntrySp(fp, trampoline_sp)
    /\ reads \subseteq FpsOf(delivered)
    /\ (at \in {"idle", "iter"} /\ ~stopped) => reads = FpsOf(delivered)
    /\ stopped => reads = FpsOf(delivered) \ {LastDelivered.fp}
    /\ (WellFormed /\ trap_ctx = None) =>
        \A i \in 1..Len(stack.regions) :
            stack.regions[i] > 0 => EntrySp(stack.regions, i) \notin (reads \cup FpsOf(delivered))

C14_Witness ==
    /\ Completed /\ stopped /\ WellFormed
    /\ Len(delivered) = 3
    /\ Cardinality(reads) = 2
    /\ LastDelivered.fp \notin reads

C14_WitnessFull ==
    /\ Completed /\ ~stopped /\ WellFormed
    /\ Cardinality(reads) = 4 /\ reads = FpsOf(delivered)

\* C15: frames delivered one after the other through a saved-fp link have
\* strictly increasing fps; a saved fp that is no boundary and is not above
\* the fp it was read at, a self-loop included, has aborted the capture with
\* nothing delivered after the frame it was read at.
C15_FpsStrictlyIncrease ==
    /\ \A i \in 1..(Len(delivered) - 1) :
        (/\ delivered[i + 1].fp = memory[delivered[i].fp]
         /\ delivered[i + 1].pc = memory[delivered[i].fp + 1]) =>
            delivered[i + 1].fp > delivered[i].fp
    /\ (/\ delivered # <<>>
        /\ fp = LastDelivered.fp
        /\ fp \in reads
        /\ ~ReachedEntrySp(memory[fp], trampoline_sp)
        /\ memory[fp] <= fp) => at = "abort"

C15_Witness ==
    /\ at = "abort" /\ delivered # <<>>
    /\ fp = LastDelivered.fp /\ fp \in reads
    /\ memory[fp] = fp
    /\ ~ReachedEntrySp(fp, trampoline_sp)

C15_WitnessBackwards ==
    /\ at = "abort" /\ Len(delivered) = 2
    /\ fp = LastDelivered.fp /\ fp \in reads
    /\ memory[fp] = 2 /\ fp > 2

\* A call-region record that breaks the invariants of the chain: a record
\* with old entry sp zero and old exit pc or fp non-zero, or an oldest
\* record with a non-zero field.
Malformed(rec, is_last) ==
    IF is_last
    THEN rec.pc # 0 \/ rec.fp # 0 \/ rec.sp # 0
    ELSE rec.sp = 0 /\ (rec.pc # 0 \/ rec.fp # 0)

\* C16: once the traversal has taken a malformed call-region record, the
\* capture has aborted: the record is neither skipped nor taken as the
\* normal end of the walk.
C16_MalformedRecordAborts ==
    (cursor >= 1 /\ Malformed(chain[cursor], PrevIsNull(chain, cursor))) => at = "abort"

\* C17: the walker's loop runs only with fp and the region bound non-zero,
\* the first frame delivered has a non-zero pc, and a region entered with a
\* zero pc, fp or bound has aborted the capture with no frame of that region
\* delivered and no word read through its fp.
C17_RegionStartsNonZero ==
    /\ at \in {"loop", "visit", "read"} => (fp # 0 /\ trampoline_sp # 0)
    /\ delivered # <<>> => delivered[1].pc # 0
    /\ (at \in {"loop", "visit", "read", "iter", "idle"} /\ cursor >= 1 /\ chain[cursor].sp # 0
            /\ ~PrevIsNull(chain, cursor)) =>
        (chain[cursor].pc # 0 /\ chain[cursor].fp # 0)
    /\ (at = "abort" /\ (pc = 0 \/ fp = 0 \/ trampoline_sp = 0)) =>
        /\ fp \notin reads
        /\ Frame(pc, fp) \notin {delivered[i] : i \in 1..Len(delivered)}
        /\ cursor = 0 => (delivered = <<>> /\ reads = {})

C17_Witness ==
    /\ at = "abort" /\ cursor >= 1
    /\ chain[cursor].sp # 0 /\ chain[cursor].pc = 0 /\ chain[cursor].fp # 0
    /\ pc = 0 /\ fp = chain[cursor].fp
    /\ delivered # <<>> /\ fp \notin reads

C17_WitnessLive ==
    /\ at = "abort" /\ cursor = 0 /\ trap_pc_and_fp = None
    /\ limits.pc # 0 /\ limits.fp # 0 /\ limits.sp = 0
    /\ pc = limits.pc /\ delivered = <<>>

\* C18: the traversal of the call-region chain never runs past the oldest
\* record, so the unreachable!() behind the loop is never reached; the
\* oldest record is never walked as a region, and a capture that walked the
\* innermost region and returned with no stop in any region returned at the
\* oldest record.
C18_TraversalEndsAtSentinel ==
    /\ cursor <= Len(chain)
    /\ at = "iter" => IterHasNext(chain, cursor)
    /\ cursor = Len(chain) => at \in {"idle", "abort"}
    /\ (Completed /\ ~stopped /\ delivered # <<>>) => cursor = Len(chain)
    /\ (at = "abort" /\ cursor = Len(chain)) =>
        (debug_assertions /\ Malformed(chain[cursor], TRUE))

\* C18 as stated: a capture that returned after walking the innermost region
\* to its end without a stop returned at the oldest record.
C18_InnermostWalkedEndsAtSentinel ==
    (Completed /\ cursor >= 1) => cursor = Len(chain)

C18_Witness ==
    /\ Completed /\ ~stopped /\ delivered # <<>>
    /\ Len(chain) = 3 /\ cursor = 3
    /\ chain[1].sp # 0 /\ chain[2].sp # 0

C18_WitnessBrokenSentinel ==
    /\ Completed /\ ~stopped /\ delivered # <<>>
    /\ cursor = Len(chain) /\ chain[cursor].sp # 0
    /\ trampoline_sp # chain[cursor].sp

\* A capture is running: it has been called and has neither returned nor
\* aborted.
Running == at \notin {"idle", "abort"}

\* A step of the capture itself.
CaptureStep ==
    TlsWith \/ Resolve \/ TraceThroughWasm \/ LoopHead \/ Visit \/ ReadLinkage \/ IterNext

\* An upper bound on the steps one region walk can take: three per frame
\* pointer value and one to enter.
RegionWeight == 3 * (Top + 2) + 7

\* The steps left within the region being walked.
RegionRank ==
    CASE at = "read" -> 3 * (Top + 2 - fp) + 1
      [] at = "visit" -> 3 * (Top + 2 - fp) + 2
      [] at = "loop" -> 3 * (Top + 2 - fp) + 3
      [] at = "enter" -> 3 * (Top + 2) + 4
      [] at = "resolve" -> 3 * (Top + 2) + 5
      [] at = "tls_with" -> 3 * (Top + 2) + 6
      [] OTHER -> 1

\* A variant of the running capture: the records not yet taken weigh a whole
\* region walk each.
Rank == IF Running THEN (Len(chain) - cursor) * RegionWeight + RegionRank ELSE 0

\* C19: every capture terminates.  A running capture can always take a
\* step, each of its steps strictly lowers a natural-number variant, so it
\* ends after finitely many steps, and it ends either returned (complete or
\* stopped) or aborted, never both.
C19_CaptureTerminates ==
    /\ [](Running => (ENABLED CaptureStep /\ Rank \in Nat /\ Rank > 0))
    /\ [](at = "abort" => outcome = "none")
    /\ [](stopped => at = "idle" /\ outcome = "returned")
    /\ [][Running => Rank' < Rank]_vars

C19_Witness ==
    /\ at = "abort" /\ Len(delivered) >= 2
    /\ LastDelivered.fp \in reads
    /\ memory[LastDelivered.fp] = 2 /\ LastDelivered.fp > 2
    /\ ~ReachedEntrySp(2, trampoline_sp)

\* C20: no step of a capture changes the boundary record, a call-region
\* record or its place in the chain, or a word of stack memory, however the
\* capture ends; and a capture that returns without a stop yields the trace
\* an earlier unstopped capture on the same state yielded.
C20_CaptureIsReadOnly ==
    /\ [][limits' = limits /\ chain' = chain /\ memory' = memory /\ tls_state' = tls_state]_vars
    /\ []((Completed /\ ~stopped /\ streamed # None) => delivered = streamed[1])

C20_Witness ==
    /\ Completed /\ shape = "collect" /\ ~stopped
    /\ streamed # None /\ backtrace = streamed
    /\ trap_pc_and_fp = None
    /\ Len(delivered) >= 3
    /\ limits = RegsOf(stack.regions, 1)
    /\ chain = ChainOf(stack.regions)
    /\ memory = MemOf(stack.regions)

C20_WitnessStopped ==
    /\ Completed /\ stopped /\ streamed # None
    /\ Len(delivered) >= 1 /\ Len(delivered) < Len(streamed[1])
    /\ limits = RegsOf(stack.regions, 1)
    /\ memory = MemOf(stack.regions)

C20_WitnessNoWasm ==
    /\ Completed /\ tls_state /\ limits.pc = 0 /\ delivered = <<>> /\ streamed = Some(<<>>)
    /\ shape = "collect"

====
